---- MODULE Spec2Model ----
(***************************************************************************)
(* A model of the librarian document archive (librarianlib): the derived   *)
(* text cache of ArchivalDocument, the DocumentTemplate matcher, and the   *)
(* bulk full-text search of LibraryManager.                                *)
(*                                                                         *)
(* Strings are sequences of one-character strings.  A file on disk is a    *)
(* sequence of length 0 (the file does not exist) or 1 (its content).      *)
(***************************************************************************)
EXTENDS Integers, Sequences, FiniteSets, TLC

\* ------------------------------------------------------------------ bounds
\* Number of distinct byte contents a document's PDF can take.
NumPdfVersions == 2
\* Largest number of fields a query template sets at once.
MaxFilters == 2

\* Largest number of entries in the bibtex dictionary handed to the index.
MaxEntries == 3
\* Largest number of tags a document object holds.
MaxTags == 3
\* Number of days the clock of the model runs through.
MaxDays == 2

\* ------------------------------------------------------------ Python values
\* Python's None, distinct from every string and every digest.
PyNone == <<"None">>
\* The value recorded for a call that was killed before it returned.
NoReturn == <<"no-return">>
\* None where a list of strings is expected.
PyNoneList == << <<"None">> >>
\* The empty string.
EmptyStr == <<>>
\* A file that does not exist, and a file holding content c.
Absent == <<>>
File(c) == <<c>>

PdfVersions == 1..NumPdfVersions

\* ------------------------------------------------------------ the archive
\* The archive under study holds two documents.
Docs == {"doe", "roe"}

\* The order in which os.listdir enumerates the archive.
all_docs == <<"doe", "roe">>

\* ---------------------------------------------------------- text utilities
Lower(c) ==
    CASE c = "A" -> "a"
      [] c = "B" -> "b"
      [] c = "C" -> "c"
      [] c = "D" -> "d"
      [] c = "E" -> "e"
      [] c = "I" -> "i"
      [] c = "M" -> "m"
      [] c = "O" -> "o"
      [] c = "R" -> "r"
      [] c = "S" -> "s"
      [] OTHER -> c

\* pat occurs in s at (0-based) offset i, ignoring case.
MatchAtIgnoreCase(pat, s, i) ==
    /\ i + Len(pat) <= Len(s)
    /\ \A j \in 1..Len(pat) : Lower(pat[j]) = Lower(s[i + j])

\* re.compile(pat, re.IGNORECASE).search(s) for a literal pattern.
regex_search(pat, s) ==
    \E i \in 0..Len(s) : MatchAtIgnoreCase(pat, s, i)

\* len(re.compile(pat, re.IGNORECASE).findall(s)) for a non-empty literal
\* pattern: the non-overlapping occurrences, scanning left to right from
\* offset i.
RECURSIVE findall_from(_, _, _)
findall_from(pat, s, i) ==
    IF i + Len(pat) > Len(s) THEN 0
    ELSE IF MatchAtIgnoreCase(pat, s, i)
         THEN 1 + findall_from(pat, s, i + Len(pat))
         ELSE findall_from(pat, s, i + 1)

findall_count(pat, s) == findall_from(pat, s, 0)

\* ------------------------------------------------------------ hashing, text
\* The MD5 hex digest of PDF content c (collision free on the contents of
\* the model).
hash_pdf(c) == <<"md5", c>>

\* The plain text the extractor produces from PDF content c when it succeeds.
ExtractedText(c) ==
    CASE c % 3 = 1 -> <<"a", "b">>
      [] c % 3 = 2 -> <<"a", "A">>
      [] OTHER -> EmptyStr

\* _parse_pdf_text: the decoded text, or None when both extraction methods
\* fail.  ok is the extractor's outcome on this call.
parse_pdf_text(c, ok) == IF ok THEN ExtractedText(c) ELSE PyNone

\* str.split(sep) for a one-character separator.
RECURSIVE split(_, _)
split(s, sep) ==
    IF \A i \in 1..Len(s) : s[i] # sep
    THEN <<s>>
    ELSE LET i == CHOOSE k \in 1..Len(s) :
                    /\ s[k] = sep
                    /\ \A j \in 1..(k - 1) : s[j] # sep
         IN  <<SubSeq(s, 1, i - 1)>> \o split(SubSeq(s, i + 1, Len(s)), sep)

\* sep.join(parts).
RECURSIVE join(_, _)
join(parts, sep) ==
    IF Len(parts) = 0 THEN EmptyStr
    ELSE IF Len(parts) = 1 THEN parts[1]
    ELSE parts[1] \o sep \o join(Tail(parts), sep)

\* pat in s: case-sensitive substring containment.
contains(pat, s) ==
    \E i \in 0..Len(s) :
        /\ i + Len(pat) <= Len(s)
        /\ \A j \in 1..Len(pat) : pat[j] = s[i + j]

Digits == <<"0", "1", "2", "3", "4", "5", "6", "7", "8", "9">>

IsDigit(c) == \E v \in 1..10 : Digits[v] = c

DigitValue(c) == (CHOOSE v \in 1..10 : Digits[v] = c) - 1

\* int(s) succeeds on a non-empty string of decimal digits.
IsInt(s) == Len(s) > 0 /\ \A i \in 1..Len(s) : IsDigit(s[i])

RECURSIVE int(_)
int(s) ==
    IF Len(s) = 0 THEN 0
    ELSE 10 * int(SubSeq(s, 1, Len(s) - 1)) + DigitValue(s[Len(s)])

\* str(n) for n >= 0.
RECURSIVE str(_)
str(n) ==
    IF n < 10 THEN <<Digits[n + 1]>>
    ELSE str(n \div 10) \o <<Digits[(n % 10) + 1]>>

\* Python truthiness of an optional string: None and '' are false.
Truthy(p) == p # PyNone /\ p # EmptyStr

\* ---------------------------------------------- the documents of the archive
\* What ArchivalDocument.__init__ loads from each document's bibtex and tag
\* files.
doc_key(d) ==
    CASE d = "doe" -> <<"d", "o", "e">>
      [] OTHER -> <<"r", "o", "e">>

doc_title(d) ==
    CASE d = "doe" -> <<"A", "b">>
      [] OTHER -> <<"b", "a">>

doc_authors(d) ==
    CASE d = "doe" -> << <<"d", "o", "e">>, <<"r", "o", "e">> >>
      [] OTHER -> << <<"r", "o", "e">> >>

doc_year(d) ==
    CASE d = "doe" -> <<"2", "0", "2", "0">>
      [] OTHER -> <<"2", "0", "1", "5">>

doc_entrytype(d) ==
    CASE d = "doe" -> <<"m", "i", "s", "c">>
      [] OTHER -> <<"j", "o", "u", "r", "n", "a", "l">>

\* _parse_bibtex: the venue is the journal field of a 'journal' entry and
\* None for the entry types without one.
doc_venue(d) ==
    IF doc_entrytype(d) = <<"j", "o", "u", "r", "n", "a", "l">>
    THEN <<"B">>
    ELSE PyNone

\* The tags read from tags.txt when the document is loaded.
doc_tags(d) ==
    CASE d = "doe" -> << <<"a", "i">> >>
      [] OTHER -> <<>>

\* --------------------------------------------------------- DocumentTemplate
\* The value standing for a regex whose compilation raised re.error.
ReError == <<"re.error">>

\* re.compile(pattern, re.IGNORECASE): the patterns of the model are literal
\* but for "(", which opens a group; no pattern of the model closes one, so
\* a pattern holding "(" does not compile.  A compiled regex is stood for by
\* its literal pattern.
re_compile(pattern) ==
    IF \E i \in 1..Len(pattern) : pattern[i] = "(" THEN ReError ELSE pattern

\* _pattern_to_regex: the compiled case-insensitive regex, or None for an
\* absent or empty pattern.
pattern_to_regex(pattern) ==
    IF Truthy(pattern) THEN re_compile(pattern) ELSE PyNone

\* _parse_author_pattern: one regex for each space-separated token.
parse_author_pattern(pattern) ==
    IF Truthy(pattern)
    THEN LET authors == split(pattern, " ")
         IN  [i \in 1..Len(authors) |-> re_compile(authors[i])]
    ELSE PyNoneList

\* The value of a template whose construction raised ValueError.
ValueError == << <<"ValueError">> >>

\* _parse_year_pattern: the list of accepted year strings.
parse_year_pattern(pattern) ==
    IF Truthy(pattern)
    THEN IF \E i \in 1..Len(pattern) : pattern[i] = "-"
         THEN LET years == split(pattern, "-")
              IN  IF IsInt(years[1]) /\ IsInt(years[2])
                  THEN LET first == int(years[1])
                           lastYear == int(years[2])
                       IN  [i \in 1..(IF lastYear >= first
                                      THEN lastYear - first + 1 ELSE 0)
                              |-> str(first + i - 1)]
                  ELSE ValueError
         ELSE <<pattern>>
    ELSE PyNoneList

\* _pattern_to_list: the comma-separated tags.
pattern_to_list(pattern) ==
    IF Truthy(pattern) THEN split(pattern, ",") ELSE <<>>

\* DocumentTemplate.__init__ applied to the raw patterns.
DocumentTemplate(raw) ==
    [key_regex         |-> pattern_to_regex(raw.key),
     title_regex       |-> pattern_to_regex(raw.title),
     author_regexes    |-> parse_author_pattern(raw.author),
     years             |-> parse_year_pattern(raw.year),
     venue_regex       |-> pattern_to_regex(raw.venue),
     entrytype_pattern |-> raw.entrytype,
     text_regex        |-> pattern_to_regex(raw.text),
     tag_list          |-> pattern_to_list(raw.tag)]

\* The exception DocumentTemplate.__init__ raises on the raw patterns, its
\* assignments taken in their order, or "none" when the template is built.
init_error(raw) ==
    LET tmpl == DocumentTemplate(raw)
    IN  IF tmpl.key_regex = ReError THEN "re.error"
        ELSE IF tmpl.title_regex = ReError THEN "re.error"
        ELSE IF /\ tmpl.author_regexes # PyNoneList
                /\ \E i \in 1..Len(tmpl.author_regexes) :
                       tmpl.author_regexes[i] = ReError
             THEN "re.error"
        ELSE IF tmpl.years = ValueError THEN "ValueError"
        ELSE IF tmpl.venue_regex = ReError THEN "re.error"
        ELSE IF tmpl.text_regex = ReError THEN "re.error"
        ELSE "none"

tmpl_key(tmpl, key) ==
    tmpl.key_regex = PyNone \/ regex_search(tmpl.key_regex, key)

tmpl_title(tmpl, title) ==
    tmpl.title_regex = PyNone \/ regex_search(tmpl.title_regex, title)

\* A variant of tmpl_authors with a defect: one matching token is enough.
tmpl_authors_any_token(tmpl, authors) ==
    IF tmpl.author_regexes # PyNoneList /\ Len(tmpl.author_regexes) > 0
    THEN LET joined == join(authors, <<" ">>)
         IN  \E i \in 1..Len(tmpl.author_regexes) :
                 regex_search(tmpl.author_regexes[i], joined)
    ELSE TRUE

tmpl_authors(tmpl, authors) ==
    IF tmpl.author_regexes # PyNoneList /\ Len(tmpl.author_regexes) > 0
    THEN LET joined == join(authors, <<" ">>)
         IN  \A i \in 1..Len(tmpl.author_regexes) :
                 regex_search(tmpl.author_regexes[i], joined)
    ELSE TRUE

tmpl_year(tmpl, year) ==
    \/ tmpl.years = PyNoneList
    \/ Len(tmpl.years) = 0
    \/ \E i \in 1..Len(tmpl.years) : tmpl.years[i] = year

\* A variant of tmpl_venue with a defect: a document without a venue is
\* rejected before the template is asked whether it filters on the venue.
tmpl_venue_document_first(tmpl, venue) ==
    IF ~Truthy(venue) THEN FALSE
    ELSE IF tmpl.venue_regex = PyNone THEN TRUE
    ELSE regex_search(tmpl.venue_regex, venue)

\* A variant of tmpl_venue with a defect: a document without a venue is
\* let through whatever the filter.
tmpl_venue_missing_accepts(tmpl, venue) ==
    IF tmpl.venue_regex = PyNone THEN TRUE
    ELSE IF ~Truthy(venue) THEN TRUE
    ELSE regex_search(tmpl.venue_regex, venue)

tmpl_venue(tmpl, venue) ==
    IF tmpl.venue_regex = PyNone THEN TRUE
    ELSE IF ~Truthy(venue) THEN FALSE
    ELSE regex_search(tmpl.venue_regex, venue)

tmpl_entrytype(tmpl, entrytype) ==
    \/ ~Truthy(tmpl.entrytype_pattern)
    \/ contains(tmpl.entrytype_pattern, entrytype)

\* A variant of tmpl_tags with a defect: the tags must be the same in number
\* as well, so a document with a tag the filter does not name is rejected.
tmpl_tags_same_length(tmpl, tagList) ==
    /\ Len(tmpl.tag_list) = Len(tagList)
    /\ \A i \in 1..Len(tmpl.tag_list) :
          \E j \in 1..Len(tagList) : tagList[j] = tmpl.tag_list[i]

tmpl_tags(tmpl, tagList) ==
    \A i \in 1..Len(tmpl.tag_list) :
        \E j \in 1..Len(tagList) : tagList[j] = tmpl.tag_list[i]

\* A variant of tmpl_text with a defect: a matching text counts once,
\* however many occurrences it holds.
tmpl_text_counts_once(tmpl, txt) ==
    IF txt = PyNone
    THEN [raised |-> TRUE, result |-> FALSE, count |-> 0]
    ELSE IF regex_search(tmpl.text_regex, txt)
         THEN [raised |-> FALSE, result |-> TRUE, count |-> 1]
         ELSE [raised |-> FALSE, result |-> FALSE, count |-> 0]

\* DocumentTemplate.text applied to the text that text_func() returned:
\* findall raises TypeError when that text is None.
tmpl_text(tmpl, txt) ==
    IF txt = PyNone
    THEN [raised |-> TRUE, result |-> FALSE, count |-> 0]
    ELSE LET count == findall_count(tmpl.text_regex, txt)
         IN  IF count = 0
             THEN [raised |-> FALSE, result |-> FALSE, count |-> 0]
             ELSE [raised |-> FALSE, result |-> TRUE, count |-> count]

\* ------------------------------------------------------- the query inputs
\* DocumentTemplate() with every pattern left at its default.
NoRaw ==
    [key |-> PyNone, title |-> PyNone, author |-> PyNone, year |-> PyNone,
     venue |-> PyNone, entrytype |-> PyNone, text |-> PyNone, tag |-> PyNone]

\* The raw patterns a caller may give for each field; None is "no filter".
Fields == {"key", "title", "author", "year", "venue", "entrytype", "text", "tag"}

RawPatterns ==
    [key       |-> {PyNone, <<"D", "O">>},
     title     |-> {PyNone, <<"a", "b">>},
     author    |-> {PyNone, <<"d", "o", "e", " ", "R", "o", "e">>},
     year      |-> {PyNone, <<"2", "0", "1", "8", "-", "2", "0", "2", "2">>},
     venue     |-> {PyNone, <<"b">>},
     entrytype |-> {PyNone, <<"m", "i", "s", "c">>},
     text      |-> {PyNone, <<"a">>, <<"B">>},
     tag       |-> {PyNone, <<"a", "i">>}]

FiltersSet(raw) == {f \in Fields : raw[f] # PyNone}

\* The raw templates of the model: at most MaxFilters fields are set.
Templates ==
    {raw \in [key : RawPatterns.key, title : RawPatterns.title,
              author : RawPatterns.author, year : RawPatterns.year,
              venue : RawPatterns.venue, entrytype : RawPatterns.entrytype,
              text : RawPatterns.text, tag : RawPatterns.tag] :
        Cardinality(FiltersSet(raw)) <= MaxFilters}

\* Each raw template with the DocumentTemplate built from it.
CompiledTemplates ==
    {[raw |-> raw, tmpl |-> DocumentTemplate(raw)] : raw \in Templates}

\* Raw patterns as a user may type them, well formed or not: "(" is a regex
\* that does not compile, "2018-" a year range without its upper bound and
\* "2018-2022-9" a year range of three parts.
InputPatterns ==
    [key  |-> {PyNone, <<"D", "O">>, <<"(">>},
     year |-> {PyNone,
               <<"2", "0", "1", "8", "-", "2", "0", "2", "2">>,
               <<"2", "0", "1", "8", "-">>,
               <<"2", "0", "1", "8", "-", "2", "0", "2", "2", "-", "9">>},
     text |-> {PyNone, <<"a">>}]

\* The raw templates of such patterns, each with the DocumentTemplate built
\* from it or with the exception its construction raised.
InputTemplates ==
    {[raw   |-> [NoRaw EXCEPT !.key = k, !.year = y, !.text = t],
      tmpl  |-> DocumentTemplate([NoRaw EXCEPT !.key = k, !.year = y, !.text = t]),
      error |-> init_error([NoRaw EXCEPT !.key = k, !.year = y, !.text = t])] :
        k \in InputPatterns.key, y \in InputPatterns.year,
        t \in InputPatterns.text}

\* --------------------------------------- the predicates, one field at a time
\* The raw patterns and the document fields on which each predicate of a
\* template is tried.
KeyPatterns == {PyNone, EmptyStr, <<"D", "O">>, <<"d", "o">>, <<"a">>}
KeyValues == {<<"d", "o", "e">>, <<"r", "o", "e">>, <<"D", "O", "E">>}

TitlePatterns == {PyNone, <<"a", "b">>, <<"A", "B">>}
TitleValues == {<<"A", "b">>, <<"b", "a">>}

AuthorPatterns ==
    {PyNone,
     <<"d", "o", "e", " ", "R", "o", "e">>,
     <<"r", "o", "e">>,
     <<"d", "o", "e", " ", " ", "r", "o", "e">>,
     <<"e", "r">>}
AuthorValues ==
    {<< <<"d", "o", "e">>, <<"r", "o", "e">> >>,
     << <<"r", "o", "e">> >>,
     << <<"d", "o", "e">> >>,
     << <<"D", "o", "e">>, <<"a", "b">>, <<"R", "O", "E">> >>,
     <<>>}

YearPatterns ==
    {PyNone, EmptyStr,
     <<"2", "0", "1", "1">>,
     <<"2", "0", "1", "0", "-", "2", "0", "1", "2">>,
     <<"2", "0", "1", "1", "-", "2", "0", "1", "1">>,
     <<"2", "0", "1", "2", "-", "2", "0", "1", "0">>}
YearValues ==
    {<<"2", "0", "0", "9">>, <<"2", "0", "1", "0">>, <<"2", "0", "1", "1">>,
     <<"2", "0", "1", "2">>, <<"2", "0", "1", "3">>}

VenuePatterns == {PyNone, EmptyStr, <<"b">>, <<"B">>}
VenueValues == {PyNone, EmptyStr, <<"B">>, <<"a", "b">>, <<"a">>}

EntrytypePatterns ==
    {PyNone, EmptyStr, <<"m", "i", "s", "c">>, <<"M", "I", "S", "C">>,
     <<"i", "s">>}
EntrytypeValues == {<<"m", "i", "s", "c">>, <<"j", "o", "u", "r", "n", "a", "l">>}

TextPatterns == {PyNone, <<"a">>, <<"B">>, <<"A", "B">>}
TextValues == {PyNone, EmptyStr, <<"a", "b">>, <<"a", "A">>}

TagPatterns ==
    {PyNone, <<"a", "i">>, <<"m", "l">>, <<"a", "i", ",", "m", "l">>}
TagValues ==
    {<<>>,
     << <<"a", "i">> >>,
     << <<"m", "l">> >>,
     << <<"a", "i">>, <<"m", "l">> >>,
     << <<"m", "l">>, <<"n", "l">> >>}

\* The result of one predicate of the template built from a single raw
\* pattern: tmpl.<field>(value), or tmpl.authors(valueList) and
\* tmpl.tags(valueList) for the two list-valued fields.  For the text field
\* the value is what text_func() returns.
predicate(field, pattern, value, valueList) ==
    LET tmpl == DocumentTemplate([NoRaw EXCEPT ![field] = pattern])
        bool(b) == [raised |-> FALSE, result |-> b, count |-> 0]
    IN  CASE field = "key" -> bool(tmpl_key(tmpl, value))
          [] field = "title" -> bool(tmpl_title(tmpl, value))
          [] field = "author" -> bool(tmpl_authors(tmpl, valueList))
          [] field = "year" -> bool(tmpl_year(tmpl, value))
          [] field = "venue" -> bool(tmpl_venue(tmpl, value))
          [] field = "entrytype" -> bool(tmpl_entrytype(tmpl, value))
          [] field = "tag" -> bool(tmpl_tags(tmpl, valueList))
          [] OTHER ->
               IF tmpl.text_regex = PyNone
               THEN [raised |-> FALSE, result |-> TRUE, count |-> 0]
               ELSE tmpl_text(tmpl, value)

\* ------------------------------------------------------------- index.html
\* ord(c) for the characters of the keys and years of the model.
ord(c) ==
    CASE IsDigit(c) -> 48 + DigitValue(c)
      [] c = "a" -> 97
      [] c = "b" -> 98
      [] c = "d" -> 100
      [] c = "e" -> 101
      [] c = "o" -> 111
      [] c = "r" -> 114
      [] OTHER -> 0

\* a < b on Python strings: the first differing character decides, and a
\* proper prefix is smaller.
str_lt(a, b) ==
    \E i \in 1..(Len(b)) :
        /\ \A j \in 1..(i - 1) : j <= Len(a) /\ a[j] = b[j]
        /\ \/ i = Len(a) + 1
           \/ i <= Len(a) /\ ord(a[i]) < ord(b[i])

\* The bibtex entries an index may be built from: the key and the year field
\* of each.
EntryPool ==
    {[key |-> <<"d", "o", "e">>, year |-> <<"2", "0", "2", "0">>],
     [key |-> <<"r", "o", "e">>, year |-> <<"2", "0", "1", "5">>],
     [key |-> <<"b", "o", "b">>, year |-> <<"2", "0", "1", "5">>],
     [key |-> <<"a", "b", "e">>, year |-> <<"9", "9", "9">>]}

\* bib_dict.items(): up to MaxEntries entries with distinct keys, in the
\* order in which the dictionary holds them.
BibDicts ==
    UNION {{items \in [1..n -> EntryPool] :
               \A i, j \in 1..n : i # j => items[i].key # items[j].key} :
           n \in 0..MaxEntries}

\* sorted(items, key=entry_year, reverse=True): the year strings are
\* compared as strings; the sort is stable, so entries of the same year keep
\* their order.
RECURSIVE sorted_by_year(_)
sorted_by_year(items) ==
    IF Len(items) = 0 THEN <<>>
    ELSE LET best == CHOOSE i \in 1..Len(items) :
                        /\ \A j \in 1..Len(items) :
                              ~str_lt(items[i].year, items[j].year)
                        /\ \A j \in 1..(i - 1) :
                              str_lt(items[j].year, items[i].year)
             rest == [j \in 1..(Len(items) - 1) |->
                        IF j < best THEN items[j] ELSE items[j + 1]]
         IN  <<items[best]>> \o sorted_by_year(rest)

\* html(manager, bib_dict): the entries in the order in which the page
\* lists them.
html(bib_dict) == sorted_by_year(bib_dict)

\* The search results sorted by key, in ascending lexical order of the keys.
RECURSIVE sorted_by_key(_)
sorted_by_key(items) ==
    IF Len(items) = 0 THEN <<>>
    ELSE LET least == CHOOSE i \in 1..Len(items) :
                         /\ \A j \in 1..Len(items) :
                               ~str_lt(items[j].key, items[i].key)
                         /\ \A j \in 1..(i - 1) :
                               str_lt(items[i].key, items[j].key)
             rest == [j \in 1..(Len(items) - 1) |->
                        IF j < least THEN items[j] ELSE items[j + 1]]
         IN  <<items[least]>> \o sorted_by_key(rest)

\* ------------------------------------------- ArchivalDocument.__init__
\* The fields every bibliographic record must have.
RequiredFields == {"title", "author", "year"}

\* A bibliographic record as the user may leave it in the .bib file: whether
\* its text parses, and which of the required fields it holds.
WellFormed == [parses |-> TRUE, fields |-> RequiredFields]

BibRecords ==
    {WellFormed, [parses |-> FALSE, fields |-> {}]}
    \cup {[parses |-> TRUE, fields |-> RequiredFields \ {f}] : f \in RequiredFields}

NoError == [error |-> "none", named |-> "none"]

\* _load_bibtex: the customization reads record['author'] inside
\* bibtexparser.loads; whatever loads raises becomes a LibraryException
\* whose message holds the path of the .bib file.
load_bibtex(rec) ==
    IF ~rec.parses \/ "author" \notin rec.fields
    THEN [error |-> "LibraryException", named |-> "bib_path"]
    ELSE NoError

\* A variant of _parse_bibtex with a defect: a record without a year is
\* given a default year.
parse_bibtex_year_defaulted(rec) ==
    IF "title" \notin rec.fields
    THEN [error |-> "LibraryException", named |-> "key"]
    ELSE IF "author" \notin rec.fields
    THEN [error |-> "LibraryException", named |-> "key"]
    ELSE NoError

\* _parse_bibtex: a missing title, author or year raises a LibraryException
\* whose message holds the key of the record.
parse_bibtex(rec) ==
    IF "title" \notin rec.fields
    THEN [error |-> "LibraryException", named |-> "key"]
    ELSE IF "author" \notin rec.fields
    THEN [error |-> "LibraryException", named |-> "key"]
    ELSE IF "year" \notin rec.fields
    THEN [error |-> "LibraryException", named |-> "key"]
    ELSE NoError

\* Whitespace as str.strip and str.split see it.
IsSpace(c) == c \in {" ", "\n"}

\* f.read().strip().split(): the pieces between runs of whitespace.
RECURSIVE strip_split(_)
strip_split(s) ==
    IF Len(s) = 0 THEN <<>>
    ELSE IF IsSpace(s[1]) THEN strip_split(Tail(s))
    ELSE LET spaces == {k \in 1..Len(s) : IsSpace(s[k])}
             n == IF spaces = {} THEN Len(s) + 1
                  ELSE CHOOSE k \in spaces : \A j \in spaces : k <= j
         IN  <<SubSeq(s, 1, n - 1)>> \o strip_split(SubSeq(s, n, Len(s)))

\* The tag list __init__ reads from tags.txt.
read_tags(tagF) == IF tagF # Absent THEN strip_split(tagF[1]) ELSE <<>>

\* The content tag() writes to tags.txt.
write_tags(tagList) == File(join(tagList, <<"\n">>))

\* The arguments of tag(): one tag as a string, or a list of tags.
TagArgs ==
    {[isList |-> FALSE, tags |-> << <<"m", "l">> >>],
     [isList |-> FALSE, tags |-> << <<"a", " ", "b">> >>],
     [isList |-> TRUE, tags |-> << <<"m", "l">>, <<"n", "l", "p">> >>]}

\* tag(tags): the list is extended by a list and appended to by a string.
tag(tagList, arg) ==
    IF arg.isList THEN tagList \o arg.tags ELSE Append(tagList, arg.tags[1])

\* The days of the model are the first days of one month.
Days == 1..MaxDays

DatePrefix == <<"2", "0", "2", "6", "-", "1", "1", "-">>

\* date.isoformat().
isoformat(day) ==
    DatePrefix \o (IF day < 10 THEN <<"0">> ELSE <<>>) \o str(day)

\* Whether strptime(date, '%Y-%m-%d') returns, and the day it returns.
strptime_parses(s) ==
    /\ Len(s) \in {Len(DatePrefix) + 1, Len(DatePrefix) + 2}
    /\ SubSeq(s, 1, Len(DatePrefix)) = DatePrefix
    /\ IsInt(SubSeq(s, Len(DatePrefix) + 1, Len(s)))
    /\ int(SubSeq(s, Len(DatePrefix) + 1, Len(s))) \in 1..30

strptime(s) == int(SubSeq(s, Len(DatePrefix) + 1, Len(s)))

\* A variant of _read_date with a defect: the date is stamped on every
\* load.
read_date_always_stamps(f, day) ==
    [file |-> File(isoformat(day)), date |-> day]

\* _read_date: the stored date when the file holds one, else today's date,
\* which is written to the file.
read_date(f, day) ==
    IF f # Absent /\ strptime_parses(f[1])
    THEN [file |-> f, date |-> strptime(f[1])]
    ELSE [file |-> File(isoformat(day)), date |-> day]

\* ArchivalDocument(key, paths): the bibtex is loaded and parsed, the tags
\* are read, the metadata directory is made if it is missing and the two
\* dates are read or stamped.
init_document(rec, tagF, mdir, addedF, accessedF, day) ==
    LET unchanged(e) ==
            [error |-> e.error, named |-> e.named, tags |-> <<>>,
             metadataDir |-> mdir, addedFile |-> addedF,
             accessedFile |-> accessedF]
    IN  IF load_bibtex(rec).error # "none" THEN unchanged(load_bibtex(rec))
        ELSE IF parse_bibtex(rec).error # "none" THEN unchanged(parse_bibtex(rec))
        ELSE [error |-> "none", named |-> "none",
              tags |-> read_tags(tagF),
              metadataDir |-> TRUE,
              addedFile |-> read_date(addedF, day).file,
              accessedFile |-> read_date(accessedF, day).file]

\* access(): today's date is written to accessed.txt.
access(day) == File(isoformat(day))

\* ------------------------------------------------------------ sanitize_key
\* The value standing for a call that raised IndexError.
IndexError == <<"IndexError">>

\* os.path.sep.
PathSep == "/"

\* sanitize_key(key): one trailing '/' is dropped, then the last piece of
\* the split on os.path.sep is returned; key[-1] raises on the empty string.
sanitize_key(key) ==
    IF key = PyNone THEN PyNone
    ELSE IF Len(key) = 0 THEN IndexError
    ELSE LET stripped == IF key[Len(key)] = "/"
                         THEN SubSeq(key, 1, Len(key) - 1)
                         ELSE key
             pieces == split(stripped, PathSep)
         IN  pieces[Len(pieces)]

\* The keys a user types or completes on the command line.
KeyInputs ==
    {PyNone, EmptyStr, <<"a">>, <<"a", "/">>, <<"a", "/", "b">>,
     <<"a", "/", "b", "/">>, <<"/">>, <<"a", "/", "/">>, <<"/", "a">>}

\* ------------------------------------------------------------ the library
\* The keys of the model: the two documents of the archive and one key that
\* the archive does not hold at first.
LibKeys == Docs \cup {"poe"}

\* A key directory that does not exist.
NoDir ==
    [exists |-> FALSE, files |-> {}, metadata |-> "absent", subdirs |-> {}]

\* The file <key><ext> of a key directory, holding the content that was
\* added for document 'of'.
StoredFile(key, ext, of) == [key |-> key, ext |-> ext, of |-> of]

\* The directories in which the model makes symlinks, and their names.
Places == {"cwd", "bookmarks"}
Names == {"doe", "poe", "ref"}

\* The library at first: the documents of the archive with their PDF,
\* their record and their stamped metadata; no bookmarks directory and no
\* symlink.
InitialDisk ==
    [archive |->
        [k \in LibKeys |->
            IF k \in Docs
            THEN [exists |-> TRUE,
                  files |-> {StoredFile(k, ".pdf", k), StoredFile(k, ".bib", k)},
                  metadata |-> "stamped", subdirs |-> {}]
            ELSE NoDir],
     bookmarksDir |-> FALSE,
     links |-> [l \in Places \X Names |-> <<>>]]

\* has_key: os.path.isdir of the key directory.
has_key(dsk, key) == dsk.archive[key].exists

HasFile(dsk, key, ext) ==
    \E f \in dsk.archive[key].files : f.key = key /\ f.ext = ext

\* get_doc(key) of the manager: the ArchivalDocument it makes reads the .bib
\* file, makes the metadata directory when it is missing and stamps the
\* dates that are missing.
get_doc(dsk, key) ==
    IF ~has_key(dsk, key) THEN [error |-> "Exception", disk |-> dsk]
    ELSE IF ~HasFile(dsk, key, ".bib")
    THEN [error |-> "FileNotFoundError", disk |-> dsk]
    ELSE [error |-> "none",
          disk |-> [dsk EXCEPT !.archive[key].metadata = "stamped"]]

\* shutil.copy of a source file to <key>/<key><ext>.
copy(dsk, srcExists, key, ext) ==
    IF ~srcExists \/ ~has_key(dsk, key)
    THEN [error |-> "FileNotFoundError", disk |-> dsk]
    ELSE [error |-> "none",
          disk |-> [dsk EXCEPT !.archive[key].files =
                        {f \in @ : ~(f.key = key /\ f.ext = ext)}
                        \cup {StoredFile(key, ext, key)}]]

\* LibraryManager.add of librarianlib for a bibtex file whose entry has this
\* key.
add(dsk, key, pdfExists) ==
    IF has_key(dsk, key) THEN [error |-> "LibraryException", disk |-> dsk]
    ELSE LET made == [dsk EXCEPT !.archive[key] =
                          [NoDir EXCEPT !.exists = TRUE, !.metadata = "empty"]]
             pdfCopy == copy(made, pdfExists, key, ".pdf")
             bibCopy == copy(pdfCopy.disk, TRUE, key, ".bib")
         IN  IF pdfCopy.error # "none" THEN pdfCopy
             ELSE get_doc(bibCopy.disk, key)

\* do_add of the lib script: the key directory is made without metadata.
do_add(dsk, key, pdfExists) ==
    IF has_key(dsk, key) THEN [error |-> "return 1", disk |-> dsk]
    ELSE LET made == [dsk EXCEPT !.archive[key] = [NoDir EXCEPT !.exists = TRUE]]
             pdfCopy == copy(made, pdfExists, key, ".pdf")
         IN  IF pdfCopy.error # "none" THEN pdfCopy
             ELSE copy(pdfCopy.disk, TRUE, key, ".bib")

\* LibraryManager.add of liblib: self.has_key is not an attribute of that
\* manager.
add_liblib(dsk, key, pdfExists) == [error |-> "AttributeError", disk |-> dsk]

\* shutil.move of the file <old>/<old><ext> to <new>/<new><ext>: the rename
\* and the copy it falls back on both need the directory of the destination.
move_file(dsk, old, ext, new) ==
    IF ~HasFile(dsk, old, ext) \/ ~has_key(dsk, new)
    THEN [error |-> "FileNotFoundError", disk |-> dsk]
    ELSE LET moved == CHOOSE f \in dsk.archive[old].files :
                          f.key = old /\ f.ext = ext
         IN  [error |-> "none",
              disk |-> [dsk EXCEPT
                  !.archive[old].files = @ \ {moved},
                  !.archive[new].files =
                      {f \in @ : ~(f.key = new /\ f.ext = ext)}
                      \cup {StoredFile(new, ext, moved.of)}]]

\* shutil.move of the directory of old to the path of new: a directory that
\* exists at the destination receives the moved directory inside it.
move_dir(dsk, old, new) ==
    IF ~has_key(dsk, old) THEN [error |-> "FileNotFoundError", disk |-> dsk]
    ELSE IF has_key(dsk, new)
    THEN [error |-> "none",
          disk |-> [dsk EXCEPT !.archive[new].subdirs = @ \cup {old},
                               !.archive[old] = NoDir]]
    ELSE [error |-> "none",
          disk |-> [dsk EXCEPT !.archive[new] = dsk.archive[old],
                               !.archive[old] = NoDir]]

\* LibraryManager.rekey with a new key supplied.
rekey(dsk, old, new) ==
    LET doc == get_doc(dsk, old)
        pdfMove == move_file(doc.disk, old, ".pdf", new)
        bibMove == move_file(pdfMove.disk, old, ".bib", new)
        dirMove == move_dir(bibMove.disk, old, new)
    IN  IF doc.error # "none" THEN doc
        ELSE IF has_key(doc.disk, new)
        THEN [error |-> "LibraryException", disk |-> doc.disk]
        ELSE IF pdfMove.error # "none" THEN pdfMove
        ELSE IF bibMove.error # "none" THEN bibMove
        ELSE IF dirMove.error # "none" THEN dirMove
        ELSE IF ~HasFile(dirMove.disk, new, ".bib")
        THEN [error |-> "FileNotFoundError", disk |-> dirMove.disk]
        ELSE dirMove

\* os.path.lexists and os.path.exists of a symlink destination: exists
\* follows the link to its target.
lexists(dsk, place, name) == dsk.links[<<place, name>>] # <<>>

exists(dsk, place, name) ==
    /\ lexists(dsk, place, name)
    /\ has_key(dsk, dsk.links[<<place, name>>][1])

\* os.symlink(src, dest).
symlink(dsk, key, place, name) ==
    IF lexists(dsk, place, name)
    THEN [error |-> "FileExistsError", disk |-> dsk]
    ELSE IF place = "bookmarks" /\ ~dsk.bookmarksDir
    THEN [error |-> "FileNotFoundError", disk |-> dsk]
    ELSE [error |-> "none",
          disk |-> [dsk EXCEPT !.links[<<place, name>>] = <<key>>]]

\* The name of the link: the name given, or the key when none is given.
link_name(key, name) == IF name = <<>> THEN key ELSE name[1]

\* LibraryManager.link of librarianlib, for a destination in a place.
link(dsk, key, name, place) ==
    LET doc == get_doc(dsk, key)
    IN  IF doc.error # "none" THEN doc
        ELSE IF exists(doc.disk, place, link_name(key, name))
        THEN [error |-> "LibraryException", disk |-> doc.disk]
        ELSE symlink(doc.disk, key, place, link_name(key, name))

\* LibraryManager.bookmark of librarianlib: os.mkdir(self.self.bookmarks_path)
\* raises when the bookmarks directory is missing.
bookmark(dsk, key, name) ==
    IF ~dsk.bookmarksDir THEN [error |-> "AttributeError", disk |-> dsk]
    ELSE link(dsk, key, <<link_name(key, name)>>, "bookmarks")

\* LibraryManager.link of liblib: the key is not looked up in the archive.
link_liblib(dsk, key, name, place) ==
    IF exists(dsk, place, link_name(key, name))
    THEN [error |-> "LibraryException", disk |-> dsk]
    ELSE symlink(dsk, key, place, link_name(key, name))

\* LibraryManager.bookmark of liblib: the bookmarks directory is made when
\* it is missing, and os.path.join raises on a name that is None.
bookmark_liblib(dsk, key, name) ==
    LET made == [dsk EXCEPT !.bookmarksDir = TRUE]
    IN  IF name = <<>> THEN [error |-> "TypeError", disk |-> made]
        ELSE link_liblib(made, key, name, "bookmarks")

\* -------------------------------------------------------------------- state
VARIABLES
    pdf,        \* pdf[d]: the current byte content of d's PDF file
    hashFile,   \* hashFile[d]: .metadata/hash.md5 of d
    textFile,   \* textFile[d]: .metadata/text.txt of d
    tags,       \* tags[d]: the tag list of d
    lastCall,   \* lastCall[d]: the PDF content and the return value of the
                \* latest text() call on d
    last,       \* the latest operation and what it returned
    search,     \* the bulk full-text search: its position in the archive
                \* and the results collected so far
    cachedBefore, \* the documents whose text the latest interrupted search
                \* obtained, and whose PDF has not changed since
    bibFile,    \* bibFile[d]: the bibliographic record in d's .bib file
    tagFile,    \* tagFile[d]: tags.txt of d
    metadataDir, \* metadataDir[d]: whether d's .metadata directory exists
    addedFile,  \* addedFile[d]: .metadata/added.txt of d
    accessedFile, \* accessedFile[d]: .metadata/accessed.txt of d
    loaded,     \* loaded[d]: whether an ArchivalDocument object of d exists;
                \* tags[d] is its tag list
    today,      \* the current day
    disk        \* the directories, files and symlinks of the library

\* The state of the documents beyond their text cache.
documentVars ==
    <<bibFile, tagFile, metadataDir, addedFile, accessedFile, loaded, today>>

vars ==
    <<pdf, hashFile, textFile, tags, lastCall, last, search, cachedBefore,
      documentVars, disk>>

\* The record of an operation; every field keeps a default when the
\* operation does not set it.
NoOp ==
    [op |-> "init", key |-> "doe",
     textCalled |-> FALSE, extracted |-> FALSE, new |-> FALSE,
     ret |-> NoReturn, raised |-> FALSE,
     preHash |-> Absent, preText |-> Absent,
     prevPdf |-> 0, prevRet |-> NoReturn,
     hasText |-> FALSE, cheapPass |-> FALSE, noFilters |-> FALSE,
     accepted |-> FALSE, count |-> 0,
     error |-> "none", field |-> "none",
     keyPattern |-> PyNone, pattern |-> PyNone, value |-> PyNone, valueList |-> <<>>,
     yearPattern |-> PyNone, entries |-> <<>>, order |-> <<>>,
     output |-> <<>>,
     named |-> "none", preTags |-> <<>>, arg |-> <<>>,
     printed |-> <<>>,
     newKey |-> "none", name |-> <<>>, place |-> "none"]

\* ------------------------------------------------- ArchivalDocument.text()
\* old_hash as text() reads it: the content of the hash file, or None.
old_hash(h) == IF h # Absent THEN h[1] ELSE PyNone

\* Variants of must_reparse with a defect: the cache is never used; the
\* stored hash is not compared with the current one; the text file is not
\* looked for.
must_reparse_always(h, t, c) == TRUE

must_reparse_without_hash_comparison(h, t, c) ==
    \/ t = Absent
    \/ h = Absent

must_reparse_without_text_file(h, t, c) ==
    \/ h = Absent
    \/ hash_pdf(c) # old_hash(h)

\* The condition under which text() reparses the PDF; h and t are the hash
\* and text files, c the PDF content.
must_reparse(h, t, c) ==
    \/ t = Absent
    \/ h = Absent
    \/ hash_pdf(c) # old_hash(h)

\* open(path).read(): raises when the file does not exist.
FileNotFoundError == <<"FileNotFoundError">>
read_file(f) == IF f = Absent THEN FileNotFoundError ELSE f[1]

\* A variant of save_hash with a defect: the hash is not written.
save_hash_skipped(h, c) == h

\* The hash file text() leaves behind after parsing: the current hash.
save_hash(h, c) == File(hash_pdf(c))

\* A variant of save_text with a defect: the text is not written.
save_text_skipped(t, parsed) == t

\* The text file text() leaves behind after parsing: written only when the
\* extractor returned text.
save_text(t, parsed) == IF parsed # PyNone THEN File(parsed) ELSE t

\* text(): the files it leaves behind and the pair (text, new) it returns.
text(h, t, c, ok) ==
    IF must_reparse(h, t, c)
    THEN LET parsed == parse_pdf_text(c, ok)
         IN  [hashFile  |-> save_hash(h, c),
              textFile  |-> save_text(t, parsed),
              text      |-> parsed,
              new       |-> TRUE,
              extracted |-> TRUE]
    ELSE [hashFile  |-> h,
          textFile  |-> t,
          text      |-> read_file(t),
          new       |-> FALSE,
          extracted |-> FALSE]

\* The proper prefixes of s: what a write cut short leaves in the file.
ProperPrefixes(s) == {SubSeq(s, 1, n) : n \in 0..(Len(s) - 1)}

\* The on-disk states text() leaves when the process is killed between its
\* writes: the hash file opened but not yet written, the hash written but
\* the text not, the text file partly written.
text_killed(h, t, c) ==
    {[hashFile |-> File(EmptyStr), textFile |-> t],
     [hashFile |-> File(hash_pdf(c)), textFile |-> t]}
    \cup {[hashFile |-> File(hash_pdf(c)), textFile |-> File(p)] :
            p \in ProperPrefixes(ExtractedText(c))}

\* ---------------------------------------------- ArchivalDocument.matches()
\* The result of matches() when a predicate rejects before the text is read.
Rejected(h, t) ==
    [accepted |-> FALSE, count |-> 0, raised |-> FALSE, textCalled |-> FALSE,
     hashFile |-> h, textFile |-> t, text |-> NoReturn,
     new |-> FALSE, extracted |-> FALSE]

\* A variant of the last step of matches() with a defect: the text is read
\* whether or not the template has a full-text filter.
matches_text_reads_always(tmpl, h, t, c, ok) ==
    LET r == text(h, t, c, ok)
        m == tmpl_text(tmpl, r.text)
    IN  [accepted |-> (tmpl.text_regex = PyNone) \/ m.result,
         count |-> m.count, raised |-> FALSE,
         textCalled |-> TRUE,
         hashFile |-> r.hashFile, textFile |-> r.textFile,
         text |-> r.text, new |-> r.new, extracted |-> r.extracted]

\* The last step of matches(): tmpl.text(_text_func).
matches_text(tmpl, h, t, c, ok) ==
    IF tmpl.text_regex = PyNone
    THEN [Rejected(h, t) EXCEPT !.accepted = TRUE]
    ELSE LET r == text(h, t, c, ok)
             m == tmpl_text(tmpl, r.text)
         IN  [accepted |-> m.result, count |-> m.count, raised |-> m.raised,
              textCalled |-> TRUE,
              hashFile |-> r.hashFile, textFile |-> r.textFile,
              text |-> r.text, new |-> r.new, extracted |-> r.extracted]

\* A variant of matches with a defect: the text predicate is evaluated
\* before the tags predicate.
matches_text_before_tags(tmpl, d, tagList, h, t, c, ok) ==
    IF ~tmpl_key(tmpl, doc_key(d)) THEN Rejected(h, t)
    ELSE IF ~tmpl_title(tmpl, doc_title(d)) THEN Rejected(h, t)
    ELSE IF ~tmpl_authors(tmpl, doc_authors(d)) THEN Rejected(h, t)
    ELSE IF ~tmpl_year(tmpl, doc_year(d)) THEN Rejected(h, t)
    ELSE IF ~tmpl_venue(tmpl, doc_venue(d)) THEN Rejected(h, t)
    ELSE IF ~tmpl_entrytype(tmpl, doc_entrytype(d)) THEN Rejected(h, t)
    ELSE LET m == matches_text(tmpl, h, t, c, ok)
         IN  IF ~m.accepted \/ tmpl_tags(tmpl, tagList) THEN m
             ELSE [m EXCEPT !.accepted = FALSE, !.count = 0]

\* matches(tmpl) on document d, whose tag list is tagList and whose cache
\* files are h and t.
matches(tmpl, d, tagList, h, t, c, ok) ==
    IF ~tmpl_key(tmpl, doc_key(d)) THEN Rejected(h, t)
    ELSE IF ~tmpl_title(tmpl, doc_title(d)) THEN Rejected(h, t)
    ELSE IF ~tmpl_authors(tmpl, doc_authors(d)) THEN Rejected(h, t)
    ELSE IF ~tmpl_year(tmpl, doc_year(d)) THEN Rejected(h, t)
    ELSE IF ~tmpl_venue(tmpl, doc_venue(d)) THEN Rejected(h, t)
    ELSE IF ~tmpl_entrytype(tmpl, doc_entrytype(d)) THEN Rejected(h, t)
    ELSE IF ~tmpl_tags(tmpl, tagList) THEN Rejected(h, t)
    ELSE matches_text(tmpl, h, t, c, ok)

\* All predicates of the template other than the full-text one accept d.
CheapPredicatesPass(tmpl, d, tagList) ==
    /\ tmpl_key(tmpl, doc_key(d))
    /\ tmpl_title(tmpl, doc_title(d))
    /\ tmpl_authors(tmpl, doc_authors(d))
    /\ tmpl_year(tmpl, doc_year(d))
    /\ tmpl_venue(tmpl, doc_venue(d))
    /\ tmpl_entrytype(tmpl, doc_entrytype(d))
    /\ tmpl_tags(tmpl, tagList)

\* ----------------------------------------------- LibraryManager.search_text
\* The search when no bulk search is running.
Idle ==
    [active |-> FALSE, pos |-> 0, regex |-> EmptyStr, results |-> <<>>,
     withText |-> {}, output |-> <<>>,
     texts |-> [d \in Docs |-> NoReturn]]

\* The regexes grep compiles for a bulk search.
SearchPatterns == {<<"a">>, <<"B">>}

\* sorted(results, key=count, reverse=True): a stable sort, so results with
\* equal counts keep the order in which they were found.
RECURSIVE sorted_by_count(_)
sorted_by_count(results) ==
    IF Len(results) = 0 THEN <<>>
    ELSE LET best == CHOOSE i \in 1..Len(results) :
                        /\ \A j \in 1..Len(results) :
                              results[j].count <= results[i].count
                        /\ \A j \in 1..(i - 1) :
                              results[j].count < results[i].count
             rest == [j \in 1..(Len(results) - 1) |->
                        IF j < best THEN results[j] ELSE results[j + 1]]
         IN  <<results[best]>> \o sorted_by_count(rest)

\* The string search_text returns, line by line.
NoMatchesInText == << [key |-> "No matches in text.", count |-> 0] >>

\* A variant of search_output with a defect: the lines are joined without a
\* look at their number, so no results give the empty string.
search_output_joined_only(results) == sorted_by_count(results)

search_output(results) ==
    IF Len(results) = 0 THEN NoMatchesInText ELSE sorted_by_count(results)

\* A variant of search_collect with a defect: a document is listed whenever
\* it has text, occurrences or not.
search_collect_every_text(results, regex, d, txt) ==
    IF txt = PyNone THEN results
    ELSE Append(results, [key |-> d, count |-> findall_count(regex, txt)])

\* One iteration of the loop of search_text on document d: the results
\* after it, given what d.text() returned.
search_collect(results, regex, d, txt) ==
    IF txt = PyNone THEN results
    ELSE LET count == findall_count(regex, txt)
         IN  IF count > 0
             THEN Append(results, [key |-> d, count |-> count])
             ELSE results

\* ------------------------------------------------------------ search_bibtex
\* The regexes of a search of the bibtex entries.
BibtexPatterns == {<<"a">>, <<"x">>}

\* The values of the fields of d's entry in bibtex_dict(), the ID field left
\* out: the entry type, the title, the authors separated by ';', the year
\* and, for a journal entry, the journal.
bibtex_fields(d) ==
    <<doc_entrytype(d), doc_title(d), join(doc_authors(d), <<";", " ">>),
      doc_year(d)>>
    \o (IF doc_venue(d) = PyNone THEN <<>> ELSE <<doc_venue(d)>>)

\* The number of matches of regex in the fields of d's entry.
RECURSIVE count_in_fields(_, _)
count_in_fields(regex, fields) ==
    IF Len(fields) = 0 THEN 0
    ELSE findall_count(regex, fields[1]) + count_in_fields(regex, Tail(fields))

\* The results search_bibtex collects over the entries, in their order.
RECURSIVE bibtex_results(_, _)
bibtex_results(regex, docs) ==
    IF Len(docs) = 0 THEN <<>>
    ELSE LET count == count_in_fields(regex, bibtex_fields(docs[1]))
         IN  (IF count > 0 THEN <<[key |-> docs[1], count |-> count]>> ELSE <<>>)
             \o bibtex_results(regex, Tail(docs))

\* The string search_bibtex returns, line by line.
NoMatchesInBibtex == << [key |-> "No matches in bibtex.", count |-> 0] >>

search_bibtex(regex) ==
    LET output == sorted_by_count(bibtex_results(regex, all_docs))
    IN  IF Len(output) = 0 THEN NoMatchesInBibtex ELSE output

\* What do_grep of the lib script prints, line by line: with no results it
\* returns before it prints anything.
NothingPrinted == << [key |-> "None", count |-> 0] >>

do_grep(regex) ==
    LET output == bibtex_results(regex, all_docs)
    IN  IF Len(output) = 0 THEN NothingPrinted ELSE output

\* The output of each of the two searches for each regex of the model.
SearchBibtexOutputs == [regex \in BibtexPatterns |-> search_bibtex(regex)]

DoGrepOutputs == [regex \in BibtexPatterns |-> do_grep(regex)]

\* ------------------------------------------- LibraryManager.bibtex_dict
\* Whether bibtexparser.loads returns for a record: its text parses and the
\* customization finds the author field it reads.
loads_returns(rec) == rec.parses /\ "author" \in rec.fields

\* The values of the fields of d's entry when its record is rec, the ID
\* field left out.
entry_fields(d, rec) ==
    <<doc_entrytype(d)>>
    \o (IF "title" \in rec.fields THEN <<doc_title(d)>> ELSE <<>>)
    \o (IF "author" \in rec.fields
        THEN <<join(doc_authors(d), <<";", " ">>)>> ELSE <<>>)
    \o (IF "year" \in rec.fields THEN <<doc_year(d)>> ELSE <<>>)
    \o (IF doc_venue(d) = PyNone THEN <<>> ELSE <<doc_venue(d)>>)

\* bibtex_dict() of librarianlib: each record is parsed on its own; a record
\* on which loads raises is reported by the name of its .bib file and left
\* out.
bibtex_dict(records) ==
    [raised  |-> FALSE,
     entries |-> SelectSeq(all_docs, LAMBDA d : loads_returns(records[d])),
     printed |-> SelectSeq(all_docs, LAMBDA d : ~loads_returns(records[d]))]

\* bibtex_dict() of liblib: the records are joined into one string that is
\* parsed in one call, outside any try statement.
bibtex_dict_joined(records) ==
    IF \A d \in Docs : loads_returns(records[d])
    THEN [raised |-> FALSE, entries |-> all_docs, printed |-> <<>>]
    ELSE [raised |-> TRUE, entries |-> <<>>, printed |-> <<>>]

\* The results search_bibtex collects over the entries of a dictionary.
RECURSIVE entry_results(_, _, _)
entry_results(regex, docs, records) ==
    IF Len(docs) = 0 THEN <<>>
    ELSE LET count == count_in_fields(regex, entry_fields(docs[1], records[docs[1]]))
         IN  (IF count > 0 THEN <<[key |-> docs[1], count |-> count]>> ELSE <<>>)
             \o entry_results(regex, Tail(docs), records)

\* search_bibtex over the dictionary that bibtex_dict returned.
search_entries(regex, dict, records) ==
    LET output == sorted_by_count(entry_results(regex, dict.entries, records))
    IN  IF Len(output) = 0 THEN NoMatchesInBibtex ELSE output

\* ------------------------------------------------------------------ actions
Init ==
    /\ pdf = [d \in Docs |-> 1]
    /\ hashFile = [d \in Docs |-> Absent]
    /\ textFile = [d \in Docs |-> Absent]
    /\ tags = [d \in Docs |-> doc_tags(d)]
    /\ lastCall = [d \in Docs |-> [pdf |-> 0, ret |-> NoReturn]]
    /\ last = NoOp
    /\ search = Idle
    /\ cachedBefore = {}
    /\ bibFile = [d \in Docs |-> WellFormed]
    /\ tagFile = [d \in Docs |-> IF doc_tags(d) = <<>> THEN Absent
                                 ELSE write_tags(doc_tags(d))]
    /\ metadataDir = [d \in Docs |-> TRUE]
    /\ addedFile = [d \in Docs |-> File(isoformat(1))]
    /\ accessedFile = [d \in Docs |-> File(isoformat(1))]
    /\ loaded = [d \in Docs |-> TRUE]
    /\ today = 1
    /\ disk = InitialDisk

\* The user replaces the PDF of document d by other bytes.
ChangePdf(d) ==
    \E c \in PdfVersions \ {pdf[d]} :
        /\ pdf' = [pdf EXCEPT ![d] = c]
        /\ last' = [NoOp EXCEPT !.op = "change", !.key = d]
        /\ search' = [search EXCEPT !.withText = @ \ {d}]
        /\ cachedBefore' = cachedBefore \ {d}
        /\ UNCHANGED <<documentVars, disk, hashFile, textFile, tags, lastCall>>

\* A call of d.text() that returns.
Text(d) ==
    \E ok \in BOOLEAN :
        \E r \in {text(hashFile[d], textFile[d], pdf[d], ok)} :
            /\ hashFile' = [hashFile EXCEPT ![d] = r.hashFile]
            /\ textFile' = [textFile EXCEPT ![d] = r.textFile]
            /\ lastCall' = [lastCall EXCEPT ![d] = [pdf |-> pdf[d], ret |-> r.text]]
            /\ last' = [NoOp EXCEPT !.op = "text", !.key = d,
                            !.textCalled = TRUE,
                            !.extracted = r.extracted,
                            !.new = r.new, !.ret = r.text,
                            !.preHash = hashFile[d], !.preText = textFile[d],
                            !.prevPdf = lastCall[d].pdf,
                            !.prevRet = lastCall[d].ret]
            /\ UNCHANGED <<documentVars, disk, pdf, tags, search, cachedBefore>>

\* A call of d.text() during which the process is killed after the first
\* write has begun.
TextKilled(d) ==
    /\ must_reparse(hashFile[d], textFile[d], pdf[d])
    /\ \E k \in text_killed(hashFile[d], textFile[d], pdf[d]) :
        /\ hashFile' = [hashFile EXCEPT ![d] = k.hashFile]
        /\ textFile' = [textFile EXCEPT ![d] = k.textFile]
        /\ lastCall' = [lastCall EXCEPT ![d] = [pdf |-> pdf[d], ret |-> NoReturn]]
        /\ last' = [NoOp EXCEPT !.op = "killed", !.key = d,
                        !.textCalled = TRUE, !.extracted = TRUE,
                        !.preHash = hashFile[d], !.preText = textFile[d],
                        !.prevPdf = lastCall[d].pdf,
                        !.prevRet = lastCall[d].ret]
        /\ UNCHANGED <<documentVars, disk, pdf, tags, search, cachedBefore>>

\* DocumentTemplate(...) raises on the raw patterns: no template exists, so
\* matches() is not called on d.
BuildFails(d) ==
    \E q \in InputTemplates :
        /\ q.error # "none"
        /\ last' = [NoOp EXCEPT !.op = "build", !.key = d,
                        !.raised = TRUE, !.error = q.error,
                        !.preHash = hashFile[d], !.preText = textFile[d],
                        !.hasText = (q.raw.text # PyNone),
                        !.keyPattern = q.raw.key,
                        !.pattern = q.raw.text,
                        !.yearPattern = q.raw.year]
        /\ UNCHANGED <<documentVars, disk, pdf, hashFile, textFile, tags, lastCall, search,
                       cachedBefore>>

\* DocumentTemplate(...) is built from the raw patterns a user typed, and
\* d.matches(tmpl) is called.
BuildMatches(d) ==
    \E q \in {c \in InputTemplates : c.error = "none"}, ok \in BOOLEAN :
        \E m \in {matches(q.tmpl, d, tags[d], hashFile[d], textFile[d], pdf[d], ok)} :
            /\ hashFile' = [hashFile EXCEPT ![d] = m.hashFile]
            /\ textFile' = [textFile EXCEPT ![d] = m.textFile]
            /\ lastCall' = IF m.textCalled
                           THEN [lastCall EXCEPT ![d] = [pdf |-> pdf[d], ret |-> m.text]]
                           ELSE lastCall
            /\ last' = [NoOp EXCEPT !.op = "build_matches", !.key = d,
                            !.textCalled = m.textCalled,
                            !.extracted = m.extracted,
                            !.new = m.new, !.ret = m.text,
                            !.raised = m.raised,
                            !.error = IF m.raised THEN "TypeError" ELSE "none",
                            !.preHash = hashFile[d], !.preText = textFile[d],
                            !.hasText = (q.raw.text # PyNone),
                            !.keyPattern = q.raw.key,
                            !.pattern = q.raw.text,
                            !.yearPattern = q.raw.year,
                            !.accepted = m.accepted, !.count = m.count]
            /\ UNCHANGED <<documentVars, disk, pdf, tags, search, cachedBefore>>

\* A call of d.matches(tmpl) for a template built from raw patterns.
Matches(d) ==
    \E q \in CompiledTemplates, ok \in BOOLEAN :
        \E m \in {matches(q.tmpl, d, tags[d], hashFile[d], textFile[d], pdf[d], ok)} :
            /\ hashFile' = [hashFile EXCEPT ![d] = m.hashFile]
            /\ textFile' = [textFile EXCEPT ![d] = m.textFile]
            /\ lastCall' = IF m.textCalled
                           THEN [lastCall EXCEPT ![d] = [pdf |-> pdf[d], ret |-> m.text]]
                           ELSE lastCall
            /\ last' = [NoOp EXCEPT !.op = "matches", !.key = d,
                            !.textCalled = m.textCalled,
                            !.extracted = m.extracted,
                            !.new = m.new, !.ret = m.text,
                            !.raised = m.raised,
                            !.error = IF m.raised THEN "TypeError" ELSE "none",
                            !.preHash = hashFile[d], !.preText = textFile[d],
                            !.prevPdf = lastCall[d].pdf,
                            !.prevRet = lastCall[d].ret,
                            !.pattern = q.raw.text,
                            !.hasText = (q.raw.text # PyNone),
                            !.cheapPass = CheapPredicatesPass(q.tmpl, d, tags[d]),
                            !.noFilters = (FiltersSet(q.raw) = {}),
                            !.accepted = m.accepted, !.count = m.count]
            /\ UNCHANGED <<documentVars, disk, pdf, tags, search, cachedBefore>>

\* search_text begins: all_docs() has loaded the documents.
SearchStart ==
    /\ ~search.active
    /\ \E regex \in SearchPatterns :
        search' = [Idle EXCEPT !.active = TRUE, !.regex = regex]
    /\ last' = [NoOp EXCEPT !.op = "search_start"]
    /\ UNCHANGED <<documentVars, disk, pdf, hashFile, textFile, tags, lastCall, cachedBefore>>

\* A search of the bibtex entries, from start to end.
SearchBibtex ==
    /\ ~search.active
    /\ \E regex \in BibtexPatterns :
        last' = [NoOp EXCEPT !.op = "search_bibtex", !.pattern = regex,
                     !.output = SearchBibtexOutputs[regex]]
    /\ UNCHANGED <<documentVars, disk, pdf, hashFile, textFile, tags, lastCall, search,
                   cachedBefore>>

\* The grep command of the lib script, from start to end.
DoGrep ==
    /\ ~search.active
    /\ \E regex \in BibtexPatterns :
        last' = [NoOp EXCEPT !.op = "do_grep", !.pattern = regex,
                     !.output = DoGrepOutputs[regex]]
    /\ UNCHANGED <<documentVars, disk, pdf, hashFile, textFile, tags, lastCall, search,
                   cachedBefore>>

\* One iteration of the loop of search_text.
SearchStep ==
    /\ search.active
    /\ search.pos < Len(all_docs)
    /\ \E ok \in BOOLEAN :
        \E d \in {all_docs[search.pos + 1]} :
        \E r \in {text(hashFile[d], textFile[d], pdf[d], ok)} :
            /\ hashFile' = [hashFile EXCEPT ![d] = r.hashFile]
            /\ textFile' = [textFile EXCEPT ![d] = r.textFile]
            /\ lastCall' = [lastCall EXCEPT ![d] = [pdf |-> pdf[d], ret |-> r.text]]
            /\ search' = [search EXCEPT
                              !.pos = @ + 1,
                              !.results = search_collect(@, search.regex, d, r.text),
                              !.withText = IF r.text # PyNone
                                           THEN @ \cup {d} ELSE @,
                              !.texts = [@ EXCEPT ![d] = r.text]]
            /\ last' = [NoOp EXCEPT !.op = "search_step", !.key = d,
                            !.textCalled = TRUE,
                            !.extracted = r.extracted,
                            !.new = r.new, !.ret = r.text]
            /\ UNCHANGED <<documentVars, disk, pdf, tags, cachedBefore>>

\* search_text returns its output after the last document.
SearchFinish ==
    /\ search.active
    /\ search.pos = Len(all_docs)
    /\ search' = [Idle EXCEPT !.output = search_output(search.results),
                              !.regex = search.regex,
                              !.texts = search.texts]
    /\ cachedBefore' = {}
    /\ last' = [NoOp EXCEPT !.op = "search_finish"]
    /\ UNCHANGED <<documentVars, disk, pdf, hashFile, textFile, tags, lastCall>>

\* The search is interrupted between two writes of no document.
SearchInterrupt ==
    /\ search.active
    /\ search' = Idle
    /\ cachedBefore' = search.withText
    /\ last' = [NoOp EXCEPT !.op = "search_interrupt"]
    /\ UNCHANGED <<documentVars, disk, pdf, hashFile, textFile, tags, lastCall>>

\* The search is killed while text() writes the cache of the next document.
SearchKilled ==
    /\ search.active
    /\ search.pos < Len(all_docs)
    /\ \E d \in {all_docs[search.pos + 1]} :
        /\ must_reparse(hashFile[d], textFile[d], pdf[d])
        /\ \E k \in text_killed(hashFile[d], textFile[d], pdf[d]) :
            /\ hashFile' = [hashFile EXCEPT ![d] = k.hashFile]
            /\ textFile' = [textFile EXCEPT ![d] = k.textFile]
            /\ lastCall' = [lastCall EXCEPT ![d] = [pdf |-> pdf[d], ret |-> NoReturn]]
            /\ last' = [NoOp EXCEPT !.op = "search_killed", !.key = d,
                            !.textCalled = TRUE, !.extracted = TRUE]
    /\ search' = Idle
    /\ cachedBefore' = search.withText
    /\ UNCHANGED <<documentVars, disk, pdf, tags>>

\* One predicate of a template is called on a field of some document.
Predicate(field, patterns, values, valueLists) ==
    \E pattern \in patterns, value \in values, valueList \in valueLists :
        \E r \in {predicate(field, pattern, value, valueList)} :
            /\ last' = [NoOp EXCEPT !.op = "predicate", !.field = field,
                            !.pattern = pattern, !.value = value,
                            !.valueList = valueList,
                            !.raised = r.raised,
                            !.error = IF r.raised THEN "TypeError" ELSE "none",
                            !.accepted = r.result, !.count = r.count]
            /\ UNCHANGED <<documentVars, disk, pdf, hashFile, textFile, tags, lastCall, search,
                           cachedBefore>>

TmplKey == Predicate("key", KeyPatterns, KeyValues, {<<>>})

TmplTitle == Predicate("title", TitlePatterns, TitleValues, {<<>>})

TmplAuthors == Predicate("author", AuthorPatterns, {PyNone}, AuthorValues)

TmplYear == Predicate("year", YearPatterns, YearValues, {<<>>})

TmplVenue == Predicate("venue", VenuePatterns, VenueValues, {<<>>})

TmplEntrytype ==
    Predicate("entrytype", EntrytypePatterns, EntrytypeValues, {<<>>})

TmplText == Predicate("text", TextPatterns, TextValues, {<<>>})

TmplTags == Predicate("tag", TagPatterns, {PyNone}, TagValues)

\* The index command renders the page for a bibtex dictionary.
IndexHtml ==
    \E bib_dict \in BibDicts :
        /\ last' = [NoOp EXCEPT !.op = "index", !.entries = bib_dict,
                        !.order = html(bib_dict)]
        /\ UNCHANGED <<documentVars, disk, pdf, hashFile, textFile, tags, lastCall, search,
                       cachedBefore>>

\* A search puts its results in the order of their keys.
SortByKey ==
    \E results \in BibDicts :
        /\ last' = [NoOp EXCEPT !.op = "sort_key", !.entries = results,
                        !.order = sorted_by_key(results)]
        /\ UNCHANGED <<documentVars, disk, pdf, hashFile, textFile, tags, lastCall, search,
                       cachedBefore>>

\* A command cleans up the key the user supplied.
SanitizeKey ==
    \E key \in KeyInputs :
        \E r \in {sanitize_key(key)} :
            /\ last' = [NoOp EXCEPT !.op = "sanitize_key", !.value = key,
                            !.raised = (r = IndexError),
                            !.error = IF r = IndexError THEN "IndexError"
                                      ELSE "none",
                            !.ret = r]
            /\ UNCHANGED <<documentVars, disk, pdf, hashFile, textFile, tags, lastCall, search,
                           cachedBefore>>

\* The user edits the bibliographic record of d.
EditBib(d) ==
    \E rec \in BibRecords \ {bibFile[d]} :
        /\ bibFile' = [bibFile EXCEPT ![d] = rec]
        /\ last' = [NoOp EXCEPT !.op = "edit_bib", !.key = d]
        /\ UNCHANGED <<pdf, hashFile, textFile, tags, lastCall, search,
                       cachedBefore, tagFile, metadataDir, addedFile,
                       accessedFile, loaded, today, disk>>

\* Document d is loaded from the archive: ArchivalDocument(key, paths).
Load(d) ==
    \E r \in {init_document(bibFile[d], tagFile[d], metadataDir[d],
                              addedFile[d], accessedFile[d], today)} :
        /\ loaded' = IF r.error = "none" THEN [loaded EXCEPT ![d] = TRUE]
                     ELSE loaded
        /\ tags' = IF r.error = "none" THEN [tags EXCEPT ![d] = r.tags]
                   ELSE tags
        /\ metadataDir' = [metadataDir EXCEPT ![d] = r.metadataDir]
        /\ addedFile' = [addedFile EXCEPT ![d] = r.addedFile]
        /\ accessedFile' = [accessedFile EXCEPT ![d] = r.accessedFile]
        /\ last' = [NoOp EXCEPT !.op = "load", !.key = d,
                        !.raised = (r.error # "none"),
                        !.error = r.error, !.named = r.named]
        /\ UNCHANGED <<pdf, hashFile, textFile, lastCall, search,
                       cachedBefore, bibFile, tagFile, today, disk>>

\* A call of d.access().
Access(d) ==
    /\ loaded[d]
    /\ accessedFile' = [accessedFile EXCEPT ![d] = access(today)]
    /\ last' = [NoOp EXCEPT !.op = "access", !.key = d]
    /\ UNCHANGED <<pdf, hashFile, textFile, tags, lastCall, search,
                   cachedBefore, bibFile, tagFile, metadataDir, addedFile,
                   loaded, today, disk>>

\* A call of d.tag(tags).
Tag(d) ==
    /\ loaded[d]
    /\ \E arg \in TagArgs :
        /\ Len(tag(tags[d], arg)) <= MaxTags
        /\ tags' = [tags EXCEPT ![d] = tag(tags[d], arg)]
        /\ tagFile' = [tagFile EXCEPT ![d] = write_tags(tag(tags[d], arg))]
        /\ last' = [NoOp EXCEPT !.op = "tag", !.key = d,
                        !.preTags = tags[d], !.arg = arg.tags]
    /\ UNCHANGED <<pdf, hashFile, textFile, lastCall, search, cachedBefore,
                   bibFile, metadataDir, addedFile, accessedFile, loaded,
                   today, disk>>

\* Midnight passes.
NextDay ==
    /\ today < MaxDays
    /\ today' = today + 1
    /\ last' = [NoOp EXCEPT !.op = "next_day"]
    /\ UNCHANGED <<pdf, hashFile, textFile, tags, lastCall, search,
                   cachedBefore, bibFile, tagFile, metadataDir, addedFile,
                   accessedFile, loaded, disk>>

\* A search of the bibtex entries that a bibtex_dict function has read
\* from the records as they are on disk; nothing is returned when the
\* function raises.
SearchRecords(op, dict) ==
    /\ \E regex \in BibtexPatterns :
        last' = [NoOp EXCEPT !.op = op, !.pattern = regex,
                     !.raised = dict.raised,
                     !.error = IF dict.raised THEN "Exception" ELSE "none",
                     !.printed = dict.printed,
                     !.output = IF dict.raised THEN <<>>
                                ELSE search_entries(regex, dict, bibFile)]
    /\ UNCHANGED <<pdf, hashFile, textFile, tags, lastCall, search,
                   cachedBefore, documentVars, disk>>

\* LibraryManager.search_bibtex of librarianlib.
SearchBibtexDict == SearchRecords("search_bibtex_dict", bibtex_dict(bibFile))

\* search_bibtex over the bibtex_dict of the liblib manager.
SearchBibtexJoined ==
    SearchRecords("search_bibtex_joined", bibtex_dict_joined(bibFile))

\* A command of the library has run on the disk with this result.
Command(op, key, newKey, name, place, r) ==
    /\ disk' = r.disk
    /\ last' = [NoOp EXCEPT !.op = op, !.key = key, !.newKey = newKey,
                    !.name = name, !.place = place,
                    !.raised = (r.error # "none"), !.error = r.error]
    /\ UNCHANGED <<pdf, hashFile, textFile, tags, lastCall, search,
                   cachedBefore, documentVars>>

\* The three add commands, for a bibtex file of this key and a PDF path
\* that may not exist.
Add ==
    \E key \in {"doe", "poe"}, pdfExists \in BOOLEAN :
        Command("add", key, "none", <<>>, "none", add(disk, key, pdfExists))

DoAdd ==
    \E key \in {"doe", "poe"}, pdfExists \in BOOLEAN :
        Command("do_add", key, "none", <<>>, "none",
                do_add(disk, key, pdfExists))

AddLiblib ==
    \E key \in {"doe", "poe"}, pdfExists \in BOOLEAN :
        Command("add_liblib", key, "none", <<>>, "none",
                add_liblib(disk, key, pdfExists))

Rekey ==
    \E old \in {"doe", "poe"}, new \in {"roe", "poe"} :
        Command("rekey", old, new, <<>>, "none", rekey(disk, old, new))

\* The link and bookmark commands, with and without a name.
Link ==
    \E key \in {"doe", "poe"}, name \in {<<>>, <<"ref">>} :
        Command("link", key, "none", name, "cwd", link(disk, key, name, "cwd"))

Bookmark ==
    \E key \in {"doe", "poe"}, name \in {<<>>, <<"ref">>} :
        Command("bookmark", key, "none", name, "bookmarks",
                bookmark(disk, key, name))

LinkLiblib ==
    \E key \in {"doe", "poe"}, name \in {<<>>, <<"ref">>} :
        Command("link_liblib", key, "none", name, "cwd",
                link_liblib(disk, key, name, "cwd"))

BookmarkLiblib ==
    \E key \in {"doe", "poe"}, name \in {<<>>, <<"ref">>} :
        Command("bookmark_liblib", key, "none", name, "bookmarks",
                bookmark_liblib(disk, key, name))

\* Document e is as it was when it was added to the archive.
Untouched(e) ==
    /\ pdf[e] = 1
    /\ hashFile[e] = Absent
    /\ textFile[e] = Absent
    /\ lastCall[e].pdf = 0

\* The operations on one document read and write that document's files
\* only, so a behaviour of Spec follows one document and leaves the others
\* as they were added.
Next ==
    \E d \in Docs :
        /\ \A e \in Docs \ {d} : Untouched(e)
        /\ \/ ChangePdf(d)
           \/ Text(d)
           \/ TextKilled(d)
           \/ Matches(d)

Spec == Init /\ [][Next]_vars

\* The archive under bulk full-text searches, while the user replaces PDFs.
NextSearch ==
    \/ \E d \in Docs : ChangePdf(d)
    \/ SearchBibtex
    \/ DoGrep
    \/ SearchStart
    \/ SearchStep
    \/ SearchFinish
    \/ SearchInterrupt
    \/ SearchKilled

SpecSearch == Init /\ [][NextSearch]_vars

\* One document under calls that all return: the process is never killed.
NextCalls ==
    \E d \in Docs :
        /\ \A e \in Docs \ {d} : Untouched(e)
        /\ \/ ChangePdf(d)
           \/ Text(d)
           \/ Matches(d)

SpecCalls == Init /\ [][NextCalls]_vars

\* One document under queries whose raw patterns come as the user typed
\* them.
NextBuild ==
    \E d \in Docs :
        /\ \A e \in Docs \ {d} : Untouched(e)
        /\ \/ ChangePdf(d)
           \/ Text(d)
           \/ BuildFails(d)
           \/ BuildMatches(d)

SpecBuild == Init /\ [][NextBuild]_vars

\* The predicates of a query template, each called on its own.
NextTemplate ==
    \/ TmplKey
    \/ TmplTitle
    \/ TmplAuthors
    \/ TmplYear
    \/ TmplVenue
    \/ TmplEntrytype
    \/ TmplText
    \/ TmplTags
    \/ IndexHtml
    \/ SortByKey
    \/ SanitizeKey

SpecTemplate == Init /\ [][NextTemplate]_vars

\* The bibtex searches of the archive while the user edits the records.
NextBibtex ==
    \/ \E d \in Docs : EditBib(d)
    \/ SearchBibtexDict
    \/ SearchBibtexJoined

SpecBibtex == Init /\ [][NextBibtex]_vars

\* The commands that add, rename, link and bookmark documents.
NextLibrary ==
    \/ Add
    \/ DoAdd
    \/ AddLiblib
    \/ Rekey
    \/ Link
    \/ Bookmark
    \/ LinkLiblib
    \/ BookmarkLiblib

SpecLibrary == Init /\ [][NextLibrary]_vars

\* The archive before any of its documents has been loaded: no object
\* exists, and a document has either no metadata directory or one in which
\* the stamping of added.txt was cut short.
InitArchive ==
    /\ pdf = [d \in Docs |-> 1]
    /\ hashFile = [d \in Docs |-> Absent]
    /\ textFile = [d \in Docs |-> Absent]
    /\ tags = [d \in Docs |-> <<>>]
    /\ lastCall = [d \in Docs |-> [pdf |-> 0, ret |-> NoReturn]]
    /\ last = NoOp
    /\ search = Idle
    /\ cachedBefore = {}
    /\ bibFile = [d \in Docs |-> WellFormed]
    /\ tagFile = [d \in Docs |-> IF doc_tags(d) = <<>> THEN Absent
                                 ELSE write_tags(doc_tags(d))]
    /\ \E m \in BOOLEAN :
        /\ metadataDir = [d \in Docs |-> m]
        /\ addedFile = [d \in Docs |-> IF m THEN File(EmptyStr) ELSE Absent]
    /\ accessedFile = [d \in Docs |-> Absent]
    /\ loaded = [d \in Docs |-> FALSE]
    /\ today = 1
    /\ disk = InitialDisk

\* No object of document e has been made and its record is as it was
\* added.
Unloaded(e) ==
    /\ ~loaded[e]
    /\ bibFile[e] = WellFormed
    /\ accessedFile[e] = Absent

\* One document from its first load on, over the days: it is loaded,
\* opened, tagged and read while the user edits its record.
NextDocument ==
    \/ NextDay
    \/ \E d \in Docs :
        /\ \A e \in Docs \ {d} : Untouched(e) /\ Unloaded(e)
        /\ \/ EditBib(d)
           \/ Load(d)
           \/ Access(d)
           \/ Tag(d)
           \/ loaded[d] /\ Text(d)

SpecDocument == InitArchive /\ [][NextDocument]_vars

\* One document from its first load on, under the operations that are not
\* meant to touch its text cache, and under queries, which fill the cache
\* when they have a full-text filter.
NextFrame ==
    \E d \in Docs :
        /\ \A e \in Docs \ {d} : Untouched(e) /\ Unloaded(e)
        /\ \/ Load(d)
           \/ Access(d)
           \/ Tag(d)
           \/ loaded[d] /\ BuildMatches(d)

SpecFrame == InitArchive /\ [][NextFrame]_vars

\* ================================================================== claims
\* The latest operation was a call of text() that returned, directly or
\* from within matches().
TextReturned == last.textCalled /\ last.op \in {"text", "matches"}

\* The PDF of the document of the latest text() call is byte for byte what
\* it was at the text() call before it.
PdfUnchangedSincePreviousCall == last.prevPdf = pdf[last.key]

\* The hash record, the text record and the PDF content c describe a valid
\* cache entry.
CacheValid(h, t, c) ==
    /\ t # Absent
    /\ h # Absent
    /\ h[1] = hash_pdf(c)

\* C1: whenever text() returns cached text (new = false), that text is the
\* extraction of the document's current PDF bytes.
C1_CachedTextIsCurrent ==
    (TextReturned /\ ~last.new)
        => last.ret = ExtractedText(pdf[last.key])

C3_ChangeIsDetected ==
    (TextReturned /\ last.prevPdf # 0 /\ ~PdfUnchangedSincePreviousCall)
        => (/\ last.new
            /\ hashFile[last.key] = File(hash_pdf(pdf[last.key])))

C3_Witness ==
    /\ last.op = "text"
    /\ last.prevPdf # 0
    /\ last.prevPdf # pdf[last.key]
    /\ last.preHash = File(hash_pdf(last.prevPdf))
    /\ last.preText # Absent
    /\ last.new
    /\ hashFile[last.key] = File(hash_pdf(pdf[last.key]))

C6_HashImpliesText ==
    \A d \in Docs :
        hashFile[d] = File(hash_pdf(pdf[d]))
            => textFile[d] = File(ExtractedText(pdf[d]))

\* C7: in the search after an interrupted one, every document whose text the
\* interrupted search obtained, and whose PDF is unchanged, is served from
\* the cache without the extractor being invoked.
C7_InterruptedSearchKeepsCache ==
    (last.op = "search_step" /\ last.key \in cachedBefore)
        => (/\ ~last.extracted
            /\ ~last.new
            /\ textFile[last.key] = File(last.ret))

C7_Witness ==
    /\ last.op = "search_step"
    /\ last.key \in cachedBefore
    /\ ~last.extracted
    /\ search.active

\* C8: with a full-text filter, when the extraction of a document yields no
\* text, matches() returns a rejection with count 0 and raises no error.
C8_NoTextIsRejection ==
    (last.op = "matches" /\ last.textCalled /\ last.ret = PyNone)
        => (~last.raised /\ ~last.accepted /\ last.count = 0)

\* C9: matches() invokes text() only when a full-text filter is present and
\* all other predicates have passed; otherwise it leaves the hash and text
\* records unchanged.
C9_TextPredicateLast ==
    last.op = "matches"
        => /\ last.textCalled <=> (last.hasText /\ last.cheapPass)
           /\ ~last.textCalled
                 => (/\ hashFile[last.key] = last.preHash
                     /\ textFile[last.key] = last.preText)

C9_Witness ==
    /\ last.op = "matches"
    /\ last.hasText
    /\ ~last.cheapPass
    /\ ~last.textCalled
    /\ must_reparse(hashFile[last.key], textFile[last.key], pdf[last.key])
    /\ hashFile[last.key] = last.preHash
    /\ textFile[last.key] = last.preText

\* The predicate of every field for which template q has no raw pattern
\* accepts document d.
AbsentPatternsAccept(q, d) ==
    /\ q.raw.key = PyNone => tmpl_key(q.tmpl, doc_key(d))
    /\ q.raw.title = PyNone => tmpl_title(q.tmpl, doc_title(d))
    /\ q.raw.author = PyNone => tmpl_authors(q.tmpl, doc_authors(d))
    /\ q.raw.year = PyNone => tmpl_year(q.tmpl, doc_year(d))
    /\ q.raw.venue = PyNone => tmpl_venue(q.tmpl, doc_venue(d))
    /\ q.raw.entrytype = PyNone => tmpl_entrytype(q.tmpl, doc_entrytype(d))
    /\ q.raw.tag = PyNone => tmpl_tags(q.tmpl, tags[d])
    /\ q.raw.text = PyNone
          => \A ok \in BOOLEAN :
                LET m == matches_text(q.tmpl, hashFile[d], textFile[d], pdf[d], ok)
                IN  m.accepted /\ m.count = 0 /\ ~m.textCalled

\* C10: a template with no filters accepts every document with count 0, and
\* an absent raw pattern compiles to a predicate that always accepts.
C10_NoFiltersAcceptAll ==
    /\ (last.op = "matches" /\ last.noFilters)
          => (last.accepted /\ last.count = 0 /\ ~last.raised)
    /\ \A q \in CompiledTemplates, d \in Docs : AbsentPatternsAccept(q, d)

C10_Witness ==
    /\ last.op = "matches"
    /\ last.noFilters
    /\ last.accepted
    /\ last.count = 0
    /\ doc_venue(last.key) = PyNone

\* The latest operation called the predicate of field f on its own.
PredicateCalled(f) == last.op = "predicate" /\ last.field = f

\* p has the form 'a-b' with integer bounds a and b.
IsYearRange(p) ==
    LET parts == split(p, "-")
    IN  Len(parts) = 2 /\ IsInt(parts[1]) /\ IsInt(parts[2])

\* C11: for a year filter 'a-b' with integer bounds the year predicate
\* accepts a document if and only if a <= year <= b; for a year filter
\* without '-' it accepts if and only if the document's year string equals
\* the filter.
C11_YearRangeInclusive ==
    (PredicateCalled("year") /\ Truthy(last.pattern))
        => IF IsYearRange(last.pattern)
           THEN LET parts == split(last.pattern, "-")
                IN  last.accepted
                        <=> /\ int(parts[1]) <= int(last.value)
                            /\ int(last.value) <= int(parts[2])
           ELSE last.accepted <=> last.value = last.pattern

\* The string s with its letters in lower case.
LowerStr(s) == [i \in 1..Len(s) |-> Lower(s[i])]

\* The string tok occurs in the string s, letter case ignored.
OccursIgnoringCase(tok, s) ==
    \E i \in 1..(Len(s) + 1) :
        /\ i + Len(tok) - 1 <= Len(s)
        /\ LowerStr(SubSeq(s, i, i + Len(tok) - 1)) = LowerStr(tok)

\* The space-separated tokens of an author filter.
AuthorTokens(p) == {split(p, " ")[i] : i \in 1..Len(split(p, " "))}

\* C12: the author predicate accepts a document if and only if every
\* space-separated token of the filter occurs somewhere in the string formed
\* by joining all the document's authors, so that tokens may match different
\* co-authors.
C12_AuthorsConjunctive ==
    (PredicateCalled("author") /\ Truthy(last.pattern))
        => (last.accepted
              <=> \A tok \in AuthorTokens(last.pattern) :
                     OccursIgnoringCase(tok, join(last.valueList, <<" ">>)))

\* A two-token filter accepted through two different co-authors, neither of
\* whom matches both tokens.
C12_Witness ==
    /\ PredicateCalled("author")
    /\ last.pattern = <<"d", "o", "e", " ", "R", "o", "e">>
    /\ last.valueList = << <<"d", "o", "e">>, <<"r", "o", "e">> >>
    /\ last.accepted

\* The tags a tag filter names.
FilterTags(p) == {split(p, ",")[i] : i \in 1..Len(split(p, ","))}

\* The tags of a document's tag list.
TagSet(tagList) == {tagList[i] : i \in 1..Len(tagList)}

\* C13: the tag predicate accepts a document if and only if every tag of the
\* filter's tag list is among the document's tags; further tags of the
\* document do not matter.
C13_TagsSubset ==
    (PredicateCalled("tag") /\ Truthy(last.pattern))
        => (last.accepted <=> FilterTags(last.pattern) \subseteq TagSet(last.valueList))

\* The filter {ml} accepts a document tagged {ml, nl}.
C13_Witness ==
    /\ PredicateCalled("tag")
    /\ last.pattern = <<"m", "l">>
    /\ last.valueList = << <<"m", "l">>, <<"n", "l">> >>
    /\ last.accepted

\* C14: with a venue filter and a document without venue the venue predicate
\* rejects; without a venue filter it accepts every document, with or
\* without a venue.
C14_VenueFilterNeedsVenue ==
    PredicateCalled("venue")
        => /\ (Truthy(last.pattern) /\ last.value = PyNone) => ~last.accepted
           /\ ~Truthy(last.pattern) => last.accepted

\* A venue filter met a document without venue and rejected it.
C14_Witness ==
    /\ PredicateCalled("venue")
    /\ last.pattern = <<"b">>
    /\ last.value = PyNone
    /\ ~last.accepted

\* The fields whose predicates compare text.
TextualFields == {"key", "title", "author", "venue", "entrytype", "text"}

\* An optional string, and a list of strings, with the letters in lower case.
LowerOptional(p) == IF p = PyNone THEN PyNone ELSE LowerStr(p)

LowerList(l) == [i \in 1..Len(l) |-> LowerStr(l[i])]

\* The predicate of field f decides as it does when the filter and the
\* document's field are both put in lower case; any two spellings of the same
\* filter and field that differ in letter case then get the same decision.
CaseIgnoredBy(f) ==
    (PredicateCalled(f) /\ ~last.raised)
        => last.accepted
              = predicate(f, LowerOptional(last.pattern),
                          LowerOptional(last.value),
                          LowerList(last.valueList)).result

\* C15: the predicates on key, title, author, venue, entry type and full
\* text are case-insensitive: changing the letter case of the filter or of
\* the document's field never changes whether the predicate accepts.
C15_CaseInsensitive == \A f \in TextualFields : CaseIgnoredBy(f)

\* matches() was the latest operation and it returned.
MatchesReturned == last.op = "matches" /\ ~last.raised

\* The text of the document of the latest matches() call: what text()
\* returned when matches() called it, and the extraction of the current PDF
\* bytes when it did not.
DocumentText ==
    IF last.textCalled THEN last.ret ELSE ExtractedText(pdf[last.key])

C17_SortedByYearAndKey ==
    /\ last.op = "index"
          => (/\ Len(last.order) = Len(last.entries)
              /\ \A i, j \in 1..Len(last.order) :
                    i < j => int(last.order[i].year) >= int(last.order[j].year))
    /\ last.op = "sort_key"
          => (/\ Len(last.order) = Len(last.entries)
              /\ \A i, j \in 1..Len(last.order) :
                    i < j => ~str_lt(last.order[j].key, last.order[i].key))

\* The documents a finished search lists, in their order.
Listed ==
    IF search.output = NoMatchesInText THEN <<>> ELSE search.output

\* The documents in whose text, as the finished search read it, the regex
\* occurs at least once.
WithOccurrences ==
    {d \in Docs : /\ search.texts[d] # PyNone
                  /\ search.texts[d] # NoReturn
                  /\ findall_count(search.regex, search.texts[d]) >= 1}

\* C18: a full-text search lists exactly the documents with at least one
\* regex occurrence in their text, ordered by match count in non-increasing
\* order.
C18_SearchListsMatchesByCount ==
    last.op = "search_finish"
        => /\ {Listed[i].key : i \in 1..Len(Listed)} = WithOccurrences
           /\ Len(Listed) = Cardinality(WithOccurrences)
           /\ \A i \in 1..Len(Listed) :
                 Listed[i].count
                     = findall_count(search.regex, search.texts[Listed[i].key])
           /\ \A i, j \in 1..Len(Listed) :
                 i < j => Listed[i].count >= Listed[j].count

\* A search that lists both documents, the second found first in the list
\* for its two occurrences.
C18_Witness ==
    /\ last.op = "search_finish"
    /\ Len(Listed) = 2
    /\ Listed[1].key = "roe"
    /\ Listed[1].count = 2
    /\ Listed[2].key = "doe"
    /\ Listed[2].count = 1

\* The regex of the latest bibtex search occurs in no field of any entry.
NoEntryMatches ==
    \A d \in Docs :
        \A i \in 1..Len(bibtex_fields(d)) :
            ~OccursIgnoringCase(last.pattern, bibtex_fields(d)[i])

\* C19: when no document matches, the search returns an explicit value for
\* "no results" and never the empty string, which prints as a blank line.
C19_NoResultsIsExplicit ==
    /\ last.op = "search_finish"
          => /\ search.output # <<>>
             /\ WithOccurrences = {} => search.output = NoMatchesInText
    /\ last.op = "search_bibtex"
          => /\ last.output # <<>>
             /\ NoEntryMatches => last.output = NoMatchesInBibtex
    /\ last.op = "do_grep"
          => /\ last.output # <<>>
             /\ NoEntryMatches => last.output = NothingPrinted

\* A search finished over documents in none of whose text the regex occurs.
C19_Witness ==
    /\ last.op = "search_finish"
    /\ WithOccurrences = {}
    /\ \E d \in Docs : search.texts[d] # PyNone
    /\ search.output = NoMatchesInText

\* p is a year range, for it holds '-', but not one of exactly two integer
\* bounds.
MalformedYearRange(p) ==
    /\ p # PyNone
    /\ \E i \in 1..Len(p) : p[i] = "-"
    /\ ~IsYearRange(p)

\* p is a regex that does not parse.
UnparseableRegex(p) == p # PyNone /\ \E i \in 1..Len(p) : p[i] = "("

\* C20: a malformed year range or an unparseable regex is reported when the
\* query template is built, before any document is matched or has its text
\* extracted, and no document state changes before the error is raised.
C20_InputErrorsAtBuild ==
    /\ (/\ last.op \in {"build", "build_matches"}
        /\ \/ MalformedYearRange(last.yearPattern)
           \/ UnparseableRegex(last.keyPattern))
          => (/\ last.op = "build"
              /\ last.raised
              /\ last.error \in {"ValueError", "re.error"})
    /\ last.op = "build"
          => (/\ ~last.textCalled
              /\ ~last.extracted
              /\ hashFile[last.key] = last.preHash
              /\ textFile[last.key] = last.preText)

\* The key has a trailing path separator or is a nested path.
HasSeparator(key) ==
    key # PyNone /\ \E i \in 1..Len(key) : key[i] = PathSep

\* The final path component of a path: the last non-empty piece between
\* separators, or the empty string when there is none.
FinalComponent(key) ==
    LET pieces == split(key, PathSep)
        filled == {i \in 1..Len(pieces) : pieces[i] # EmptyStr}
    IN  IF filled = {} THEN EmptyStr
        ELSE pieces[CHOOSE i \in filled : \A j \in filled : j <= i]

\* C25: sanitize_key maps a key with a trailing separator or a nested path
\* to a result that holds no separator, that is non-empty when the final
\* path component of the key is non-empty, and that sanitize_key maps to
\* itself.
C25_KeyNormalization ==
    (last.op = "sanitize_key" /\ HasSeparator(last.value))
        => /\ ~last.raised
           /\ ~HasSeparator(last.ret)
           /\ (FinalComponent(last.value) # EmptyStr => last.ret # EmptyStr)
           /\ sanitize_key(last.ret) = last.ret

\* The latest operation was a load of a document whose record lacks one of
\* the required fields.
LoadedWithMissingField ==
    /\ last.op = "load"
    /\ bibFile[last.key].parses
    /\ bibFile[last.key].fields # RequiredFields

\* C22: loading a document whose record lacks the title, the author or the
\* year raises a LibraryException whose message names the document: no
\* missing field is given a default.
C22_MissingFieldIsError ==
    LoadedWithMissingField
        => /\ last.raised
           /\ last.error = "LibraryException"
           /\ last.named \in {"key", "bib_path"}

C22_Witness ==
    /\ LoadedWithMissingField
    /\ "year" \notin bibFile[last.key].fields
    /\ last.raised

\* C26: after a tag() call the tag list of the object is the list before
\* the call followed by the added tags in order, duplicates kept, and the
\* list read back from tags.txt is that same list.
C26_TagsAppendAndPersist ==
    last.op = "tag"
        => /\ tags[last.key] = last.preTags \o last.arg
           /\ read_tags(tagFile[last.key]) = tags[last.key]

\* The operation that leads to the next state is a load, access(), tag()
\* or a matches() whose template has no full-text filter.
NotReadingText ==
    \/ last'.op \in {"load", "access", "tag"}
    \/ last'.op = "build_matches" /\ ~last'.hasText

\* C27: loading a document, access(), tag() and matches() without a
\* full-text filter leave the hash record and the text record of every
\* document as they were.
C27_CacheOnlyInvalidatedByContent ==
    [][NotReadingText => (hashFile' = hashFile /\ textFile' = textFile)]_vars

\* A load, access() or tag() has just run on a document whose hash record and
\* text record exist.
C27_Witness ==
    /\ last.op \in {"load", "access", "tag"}
    /\ hashFile[last.key] # Absent
    /\ textFile[last.key] # Absent

\* The date file holds a date.
Stamped(f) == f # Absent /\ strptime_parses(f[1])

\* C28: a load of a document whose added.txt holds no date writes today's
\* date to it; once it holds a date, no load, access(), tag() or text()
\* changes it; and access() writes today's date to accessed.txt and changes
\* no other file of the document.
C28_AddedDateStampedOnce ==
    [][/\ (/\ last'.op = "load" /\ ~last'.raised
           /\ ~Stamped(addedFile[last'.key]))
          => addedFile'[last'.key] = File(isoformat(today))
       /\ (/\ last'.op \in {"load", "access", "tag", "text"}
           /\ Stamped(addedFile[last'.key]))
          => addedFile'[last'.key] = addedFile[last'.key]
       /\ last'.op = "access"
          => /\ accessedFile'[last'.key] = File(isoformat(today))
             /\ addedFile' = addedFile /\ tagFile' = tagFile
             /\ hashFile' = hashFile /\ textFile' = textFile
             /\ bibFile' = bibFile /\ pdf' = pdf
             /\ metadataDir' = metadataDir]_vars

\* A document stamped on the first day has been loaded again on a later
\* day.
C28_Witness ==
    /\ last.op = "load" /\ ~last.raised
    /\ today > 1
    /\ addedFile[last.key] = File(isoformat(1))

\* The documents whose bibliographic record is malformed.
MalformedDocs == {d \in Docs : ~bibFile[d].parses}

\* The documents whose record is complete and well formed.
SoundDocs == {d \in Docs : bibFile[d] = WellFormed}

\* The keys of a sequence of result lines or of printed messages.
KeysOf(lines) == {lines[i].key : i \in 1..Len(lines)}

\* C21: a bibtex search of the archive in which a record is malformed
\* returns; each document with a malformed record is named in a message and
\* left out of the results, and each document with a sound record is listed
\* iff the regex occurs in its entry, with its number of occurrences.
C21_MalformedRecordSkipped ==
    (/\ last.op \in {"search_bibtex_dict", "search_bibtex_joined"}
     /\ MalformedDocs # {})
        => /\ ~last.raised
           /\ \A d \in MalformedDocs :
                /\ \E i \in 1..Len(last.printed) : last.printed[i] = d
                /\ d \notin KeysOf(last.output)
           /\ \A d \in SoundDocs :
                LET count == count_in_fields(last.pattern, bibtex_fields(d))
                IN  (count > 0) <=>
                        \E i \in 1..Len(last.output) :
                            last.output[i] = [key |-> d, count |-> count]

\* C23: add() with a key that the archive already holds, and rekey() of a
\* document onto a key that the archive already holds, fail with a library
\* error and leave the archive as it was: no directory is made and no file
\* is copied, moved or overwritten.
OntoExistingKey ==
    \/ last'.op \in {"add", "add_liblib"} /\ has_key(disk, last'.key)
    \/ /\ last'.op = "rekey"
       /\ has_key(disk, last'.key)
       /\ has_key(disk, last'.newKey)

C23_DuplicateKeyRefused ==
    [][OntoExistingKey =>
          last'.error = "LibraryException" /\ disk' = disk]_vars

\* C24: add() and rekey() are all-or-nothing: when the operation fails, the
\* archive is in the state it had before the operation.
C24_AllOrNothing ==
    [][last'.op \in {"add", "do_add", "rekey"} /\ last'.raised =>
          disk' = disk]_vars

\* C29: link() and bookmark() never replace an entry: when the destination
\* exists the operation fails with a library error and the entry is as it
\* was; otherwise, for a key of the archive, exactly one symlink to the key's
\* directory is made, named by the key when no name is given.
LinkCommand == last'.op \in {"link", "bookmark", "link_liblib", "bookmark_liblib"}

Destination == <<last'.place, link_name(last'.key, last'.name)>>

C29_LinksNeverReplace ==
    [][LinkCommand =>
          IF disk.links[Destination] # <<>>
          THEN last'.error = "LibraryException" /\ disk'.links = disk.links
          ELSE has_key(disk, last'.key) =>
                  /\ ~last'.raised
                  /\ disk'.links =
                         [disk.links EXCEPT ![Destination] = <<last'.key>>]]_vars

\* C30: rekey(old_key, new_key) with old_key in the archive and new_key not
\* in it completes; afterwards the archive holds new_key and not old_key, the
\* PDF and the record of the document are stored under the file names of
\* new_key, and every other document is as it was.
C30_RekeyMovesDocument ==
    [][/\ last'.op = "rekey"
       /\ has_key(disk, last'.key)
       /\ ~has_key(disk, last'.newKey)
       => /\ ~last'.raised
          /\ has_key(disk', last'.newKey)
          /\ ~has_key(disk', last'.key)
          /\ disk'.archive[last'.newKey].files =
                 {StoredFile(last'.newKey, f.ext, f.of) :
                      f \in disk.archive[last'.key].files}
          /\ \A k \in LibKeys \ {last'.key, last'.newKey} :
                 disk'.archive[k] = disk.archive[k]]_vars

====
